---- MODULE Spec2Model ----
(***************************************************************************)
(* Model of src/src/use-cases/add-model.js: the factory registry           *)
(* (ModelFactoryInstance), the event naming protocol, the enrichment       *)
(* pipeline and the add-model use case (addModelFactory / addModel).       *)
(*                                                                         *)
(* JavaScript strings are sequences of one-character strings, so that      *)
(* toUpperCase, toLowerCase and concatenation are computed and not         *)
(* assumed.  A JavaScript value is a record [t, v]: t is the result of     *)
(* typeof, v the string's characters or the function's identity.           *)
(* An attribute bag (plain object) is a function from property names to    *)
(* values; a getter closure is stored as the value it returns.             *)
(***************************************************************************)
EXTENDS Integers, Sequences, FiniteSets, TLC

(* ---------------------------- bounds ----------------------------------- *)
MaxOps == 3
MaxConfigs == 2
MaxInvocations == 2

(* ------------------------- JavaScript values --------------------------- *)
Str(s) == [t |-> "string", v |-> s]
Undefined == [t |-> "undefined", v |-> <<>>]
Fn(name) == [t |-> "function", v |-> <<name>>]

UpperOf(c) ==
  CASE c = "a" -> "A" [] c = "c" -> "C" [] c = "d" -> "D" [] c = "e" -> "E"
    [] c = "k" -> "K" [] c = "l" -> "L" [] c = "o" -> "O" [] c = "p" -> "P"
    [] c = "r" -> "R" [] c = "t" -> "T" [] c = "u" -> "U"
    [] OTHER -> c

LowerOf(c) ==
  CASE c = "A" -> "a" [] c = "C" -> "c" [] c = "D" -> "d" [] c = "E" -> "e"
    [] c = "K" -> "k" [] c = "L" -> "l" [] c = "O" -> "o" [] c = "P" -> "p"
    [] c = "R" -> "r" [] c = "T" -> "t" [] c = "U" -> "u"
    [] OTHER -> c

toUpperCase(s) == [i \in 1..Len(s) |-> UpperOf(s[i])]
toLowerCase(s) == [i \in 1..Len(s) |-> LowerOf(s[i])]

(* EventTypes, lines 63-67: the keys of the object, in declaration order.  *)
CREATE == <<"C", "R", "E", "A", "T", "E">>
UPDATE == <<"U", "P", "D", "A", "T", "E">>
DELETE == <<"D", "E", "L", "E", "T", "E">>
EventTypes == <<CREATE, UPDATE, DELETE>>
EventTypeKeys == {EventTypes[i] : i \in 1..Len(EventTypes)}

(* ------------------------------ errors --------------------------------- *)
NoError == "none"
ErrModelName == "modelName missing or invalid"
ErrEventType == "eventType missing or invalid"
ErrUnregisteredModel == "unregistered model"
ErrUnregisteredEvent == "unregistered model event"
ErrModelFactory == "model factory rejected"
ErrEventFactory == "event factory rejected"
ErrSave == "save rejected"
ErrNotify == "notify rejected"

(* --------------------- validation and naming --------------------------- *)
Returned(val) == [threw |-> FALSE, err |-> NoError, val |-> val]
Thrown(err) == [threw |-> TRUE, err |-> err, val |-> <<>>]

checkModelName_noUpper(modelName) ==
  IF modelName.t = "string"
    THEN Returned(modelName.v)
    ELSE Thrown(ErrModelName)
checkModelName(modelName) ==
  IF modelName.t = "string"
    THEN Returned(toUpperCase(modelName.v))
    ELSE Thrown(ErrModelName)

checkEventType_defaultCreate(eventType) ==
  IF eventType.t = "string" /\ toUpperCase(eventType.v) \in EventTypeKeys
    THEN Returned(toUpperCase(eventType.v))
    ELSE Returned(CREATE)

checkEventType(eventType) ==
  IF eventType.t = "string" /\ toUpperCase(eventType.v) \in EventTypeKeys
    THEN Returned(toUpperCase(eventType.v))
    ELSE Thrown(ErrEventType)

(* checkEventType is evaluated first; its throw wins.                      *)
createEventName(eventType, modelName) ==
  LET e == checkEventType(eventType)
      m == checkModelName(modelName)
  IN  IF e.threw THEN e
      ELSE IF m.threw THEN m
      ELSE Returned(e.val \o m.val)

(* ------------------------------- Map ----------------------------------- *)
(* A JavaScript Map: entries in insertion order.                           *)
NewMap == <<>>
MapHas(m, k) == \E i \in 1..Len(m) : m[i].k = k
MapGet(m, k) == m[CHOOSE i \in 1..Len(m) : m[i].k = k].v
MapSet(m, k, v) ==
  IF MapHas(m, k)
    THEN [i \in 1..Len(m) |-> IF m[i].k = k THEN [k |-> k, v |-> v] ELSE m[i]]
    ELSE Append(m, [k |-> k, v |-> v])
MapValues(m) == [i \in 1..Len(m) |-> m[i].v]
MapKeys(m) == {m[i].k : i \in 1..Len(m)}

(* -------------------------- attribute bags ----------------------------- *)
EmptyBag == [k \in {} |-> Undefined]
(* Object.assign({}, a, b) and {...a, ...b}: b's properties win.           *)
Merge(a, b) ==
  [k \in (DOMAIN a) \cup (DOMAIN b) |-> IF k \in DOMAIN b THEN b[k] ELSE a[k]]
Prop(o, k) == IF k \in DOMAIN o THEN o[k] ELSE Undefined

(* uuid() (../lib/uuid): a fresh token per call.  The token is named by    *)
(* the call that asked for it: who is "c" for a direct registry call        *)
(* (n: its number), "m"/"e" for the model/event of addModel invocation n.   *)
uuid(who, n) == Str(<<"#", who, ToString(n)>>)
(* new Date().toUTCString()                                                *)
timeStamp == Str(<<"T">>)

(* addId, lines 90-96.  fresh is the value o.generateId() returns.         *)
addId_keepExisting(o, fresh) == Merge([id |-> fresh, getId |-> fresh], o)
addId(o, fresh) == Merge(o, [id |-> fresh, getId |-> fresh])

(* addEventName, lines 98-113; throws when createEventName throws.         *)
addEventName_keepExisting(o) ==
  LET n == createEventName(Prop(o, "eventType"), Prop(o, "modelName"))
  IN  IF n.threw THEN n
      ELSE Returned(Merge([eventName |-> Str(n.val),
                           getEventName |-> Str(n.val)], o))

addEventName(o) ==
  LET n == createEventName(Prop(o, "eventType"), Prop(o, "modelName"))
  IN  IF n.threw THEN n
      ELSE Returned(Merge(o, [eventName |-> Str(n.val),
                              getEventName |-> Str(n.val)]))

(* addModelName, lines 115-124 *)
addModelName(o) ==
  Merge(o, [modelName |-> Prop(o, "modelName"),
            getModelName |-> Prop(o, "modelName")])

(* addTimestamp, lines 126-143.  The computed property name               *)
(* e.toLowerCase() + 'Time' is mapped to the bag's property name.          *)
Time == <<"T", "i", "m", "e">>
propName(o) ==
  LET eventType == Prop(o, "eventType")
      e == IF eventType.t = "undefined" \/ eventType = Str(<<>>)
             THEN CREATE ELSE eventType.v
      p == toLowerCase(e) \o Time
  IN  CASE p = toLowerCase(CREATE) \o Time -> "createTime"
        [] p = toLowerCase(UPDATE) \o Time -> "updateTime"
        [] p = toLowerCase(DELETE) \o Time -> "deleteTime"
        [] OTHER -> "otherTime"
addTimestamp_none(o) == o

addTimestamp(o) == [k \in (DOMAIN o) \cup {propName(o)} |->
                      IF k = propName(o) THEN timeStamp ELSE o[k]]

(* enrichModel, lines 148-152, and enrichEvent, lines 157-161: the         *)
(* decorators applied first to last (compose, ../lib/compose).             *)
enrichModel(o, fresh) == addTimestamp(addModelName(addId(o, fresh)))
enrichEvent(o, fresh) ==
  LET named == addEventName(addId(o, fresh))
  IN  IF named.threw THEN named ELSE Returned(addTimestamp(named.val))

(* Model.create (./model): the factory's output merged with the           *)
(* id generator and the model name, then enriched.                         *)
ModelCreate(output, modelName, fresh) ==
  enrichModel(Merge(output, [generateId |-> Fn("uuid"),
                             modelName |-> Str(modelName)]), fresh)

(* --------------------- registered constructors ------------------------- *)
(* What each registered function resolves with when it does not reject.    *)
factoryOutput(fn, args) ==
  CASE fn = Fn("f1") -> Merge(args, [madeBy |-> Str(<<"f", "1">>)])
    [] fn = Fn("f2") -> Merge(args, [madeBy |-> Str(<<"f", "2">>)])
    [] fn = Fn("echo") -> args
    [] fn = Fn("named") -> [eventName |-> Str(<<"x">>),
                            getEventName |-> Str(<<"x">>),
                            eventType |-> Str(<<"u", "p", "d", "a", "t", "e">>),
                            modelName |-> Str(<<"z">>),
                            madeBy |-> Str(<<"n">>)]
    [] OTHER -> EmptyBag

(* ------------------------ registry operations -------------------------- *)
(* The module-level maps after the constructor, lines 164-171.             *)
NewModelFactories == NewMap
NewEventFactories == [e \in EventTypeKeys |-> NewMap]

RegResult(threw, err, accessed, reg) ==
  [threw |-> threw, err |-> err, accessed |-> accessed, reg |-> reg]

(* registerModel, lines 178-185 *)
registerModel_overwrite(mf, modelName, factoryFunction) ==
  LET n == checkModelName(modelName)
  IN  IF n.threw THEN RegResult(TRUE, n.err, FALSE, mf)
      ELSE IF factoryFunction.t = "function"
        THEN RegResult(FALSE, NoError, TRUE, MapSet(mf, n.val, factoryFunction))
        ELSE RegResult(FALSE, NoError, TRUE, mf)

registerModel(mf, modelName, factoryFunction) ==
  LET n == checkModelName(modelName)
  IN  IF n.threw THEN RegResult(TRUE, n.err, FALSE, mf)
      ELSE IF ~MapHas(mf, n.val) /\ factoryFunction.t = "function"
        THEN RegResult(FALSE, NoError, TRUE, MapSet(mf, n.val, factoryFunction))
        ELSE RegResult(FALSE, NoError, TRUE, mf)

(* registerEvent, lines 193-200 *)
registerEvent_firstWins(ef, eventType, modelName, factoryFunction) ==
  LET n == checkModelName(modelName)
      e == checkEventType(eventType)
  IN  IF n.threw THEN RegResult(TRUE, n.err, FALSE, ef)
      ELSE IF e.threw THEN RegResult(TRUE, e.err, FALSE, ef)
      ELSE IF factoryFunction.t = "function" /\ ~MapHas(ef[e.val], n.val)
        THEN RegResult(FALSE, NoError, TRUE,
               [ef EXCEPT ![e.val] = MapSet(@, n.val, factoryFunction)])
        ELSE RegResult(FALSE, NoError, FALSE, ef)

registerEvent(ef, eventType, modelName, factoryFunction) ==
  LET n == checkModelName(modelName)
      e == checkEventType(eventType)
  IN  IF n.threw THEN RegResult(TRUE, n.err, FALSE, ef)
      ELSE IF e.threw THEN RegResult(TRUE, e.err, FALSE, ef)
      ELSE IF factoryFunction.t = "function"
        THEN RegResult(FALSE, NoError, TRUE,
               [ef EXCEPT ![e.val] = MapSet(@, n.val, factoryFunction)])
        ELSE RegResult(FALSE, NoError, FALSE, ef)

(* listModels, lines 202-204: a copy of the values in insertion order.     *)
listModels(mf) == MapValues(mf)

(* The synchronous part of createModel, lines 214-218 and 225: validate,   *)
(* look the constructor up, and either call it or throw.                   *)
Lookup(threw, err, accessed, modelName, eventType, factory) ==
  [threw |-> threw, err |-> err, accessed |-> accessed,
   modelName |-> modelName, eventType |-> eventType, factory |-> factory]

createModelLookup_noHas(mf, modelName) ==
  LET n == checkModelName(modelName)
  IN  IF n.threw THEN Lookup(TRUE, n.err, FALSE, <<>>, <<>>, Undefined)
      ELSE Lookup(FALSE, NoError, TRUE, n.val, <<>>,
                  IF MapHas(mf, n.val) THEN MapGet(mf, n.val) ELSE Undefined)

createModelLookup(mf, modelName) ==
  LET n == checkModelName(modelName)
  IN  IF n.threw THEN Lookup(TRUE, n.err, FALSE, <<>>, <<>>, Undefined)
      ELSE IF MapHas(mf, n.val)
        THEN Lookup(FALSE, NoError, TRUE, n.val, <<>>, MapGet(mf, n.val))
        ELSE Lookup(TRUE, ErrUnregisteredModel, TRUE, n.val, <<>>, Undefined)

(* The synchronous part of createEvent, lines 237-241 and 252.             *)
createEventLookup(ef, eventType, modelName) ==
  LET n == checkModelName(modelName)
      e == checkEventType(eventType)
  IN  IF n.threw THEN Lookup(TRUE, n.err, FALSE, <<>>, <<>>, Undefined)
      ELSE IF e.threw THEN Lookup(TRUE, e.err, FALSE, n.val, <<>>, Undefined)
      ELSE IF MapHas(ef[e.val], n.val)
        THEN Lookup(FALSE, NoError, TRUE, n.val, e.val,
                    MapGet(ef[e.val], n.val))
        ELSE Lookup(TRUE, ErrUnregisteredEvent, TRUE, n.val, e.val, Undefined)

(* The part of createEvent after the constructor resolved, lines 242-250.  *)
createEventResult(output, eventType, modelName, fresh) ==
  enrichEvent(Merge(output, [generateId |-> Fn("uuid"),
                             modelName |-> Str(modelName),
                             eventType |-> Str(eventType)]), fresh)

(* ------------------------------ inputs --------------------------------- *)
ModelNameArgs == {Str(<<"o">>), Str(<<"O">>), Str(<<>>), Undefined}
EventTypeArgs == {Str(<<"c", "r", "e", "a", "t", "e">>),
                  Str(<<"U", "p", "d", "a", "t", "e">>),
                  Str(<<"r", "e", "a", "d">>), Undefined}
ModelFunctionArgs == {Fn("f1"), Fn("f2"), Undefined}
EventFunctionArgs == {Fn("echo"), Fn("named"), Undefined}
InputArgs == {[total |-> Str(<<"1">>)]}
EventModelNameArgs == {Str(<<"o">>), Str(<<"O">>), Undefined}
UseCaseNameArgs == {Str(<<"o">>), Str(<<"O">>), Undefined}

(* ------------------------------- state --------------------------------- *)
VARIABLES
  modelFactories,   \* line 42: Map, canonical model name -> factory function
  eventFactories,   \* line 43: event type -> Map, model name -> function
  lastOp,           \* the last registry call and how its synchronous part ended
  call,             \* the outstanding direct createModel/createEvent call;
                    \* invoked: the registered functions it has called
  eventRegs,        \* history: per (event type, model name) pair, the
                    \* function of the latest registerEvent call that
                    \* passed validation with a callable function, and
                    \* the function of the one before it
  nOps,             \* registry calls made so far
  handlerArrays,    \* the caller's handlers arrays (mutated by push)
  useCases,         \* addModelFactory calls so far and their closures
  onCalls,          \* observer.on calls so far
  inv               \* addModel invocations; frozen: which of the model
                    \* and the event Object.freeze was applied to,
                    \* attempts: the assignments tried on them so far

vars == <<modelFactories, eventFactories, lastOp, call,
          eventRegs, nOps, handlerArrays, useCases, onCalls, inv>>
registryVars == <<modelFactories, eventFactories, lastOp, call,
                  eventRegs, nOps>>
useCaseVars == <<handlerArrays, useCases, onCalls, inv>>

Op(op, modelName, eventType, fn, threw, err, accessed, ret) ==
  [op |-> op, modelName |-> modelName, eventType |-> eventType,
   fn |-> fn, threw |-> threw, err |-> err, accessed |-> accessed,
   ret |-> ret]
NoOp == Op("none", Undefined, Undefined, Undefined, FALSE, NoError, FALSE, <<>>)

NoCall ==
  [n |-> 0, op |-> "none", pc |-> "none", modelName |-> Undefined,
   eventType |-> Undefined, args |-> EmptyBag, look |-> 
     Lookup(FALSE, NoError, FALSE, <<>>, <<>>, Undefined),
   err |-> NoError, result |-> EmptyBag, invoked |-> <<>>]

Invocation(stage, phase, uc, input, name, factory, model, event, err, trace, frozen, attempts) ==
  [stage |-> stage, phase |-> phase, uc |-> uc, input |-> input,
   name |-> name, factory |-> factory, model |-> model, event |-> event,
   err |-> err, trace |-> trace, frozen |-> frozen, attempts |-> attempts]
NoInvocation ==
  Invocation("idle", "ready", 0, EmptyBag, <<>>, Undefined, EmptyBag,
             EmptyBag, NoError, <<>>, {}, {})
(* An entry of an invocation's trace: what happened, with the arguments of *)
(* the call or the value or reason it settled with.                        *)
Effect(e, a1, a2) == [e |-> e, a1 |-> a1, a2 |-> a2, err |-> NoError]
Failure(e, err) == [e |-> e, a1 |-> Undefined, a2 |-> EmptyBag, err |-> err]

CallerHandler == [kind |-> "caller", cfg |-> 0]
InitUseCaseVars ==
  /\ handlerArrays = <<<<CallerHandler>>>>
  /\ useCases = <<>>
  /\ onCalls = <<>>
  /\ inv = [i \in 1..MaxInvocations |-> NoInvocation]

Init ==
  /\ modelFactories = NewModelFactories
  /\ eventFactories = NewEventFactories
  /\ lastOp = NoOp
  /\ call = NoCall
  /\ eventRegs = {}
  /\ nOps = 0
  /\ InitUseCaseVars

(* --------------------------- registry actions -------------------------- *)
(* new ModelFactoryInstance(), lines 164-171: both module-level maps are   *)
(* replaced by empty ones.                                                 *)
Construct ==
  /\ nOps < MaxOps
  /\ nOps' = nOps + 1
  /\ modelFactories' = NewModelFactories
  /\ eventFactories' = NewEventFactories
  /\ lastOp' = Op("new", Undefined, Undefined, Undefined,
                  FALSE, NoError, FALSE, <<>>)
  /\ UNCHANGED <<call, eventRegs, useCaseVars>>

RegisterModel_reserves(modelName, fn) ==
  LET r == registerModel(modelFactories, modelName, fn)
      n == checkModelName(modelName)
  IN  /\ nOps < MaxOps
      /\ nOps' = nOps + 1
      /\ modelFactories' =
           IF ~n.threw /\ ~MapHas(modelFactories, n.val)
             THEN MapSet(modelFactories, n.val, fn)
             ELSE r.reg
      /\ lastOp' = Op("registerModel", modelName, Undefined, fn,
                      r.threw, r.err, r.accessed, <<>>)
      /\ UNCHANGED <<eventFactories, call, eventRegs,
                     useCaseVars>>
RegisterModel(modelName, fn) ==
  LET r == registerModel(modelFactories, modelName, fn)
  IN  /\ nOps < MaxOps
      /\ nOps' = nOps + 1
      /\ modelFactories' = r.reg
      /\ lastOp' = Op("registerModel", modelName, Undefined, fn,
                      r.threw, r.err, r.accessed, <<>>)
      /\ UNCHANGED <<eventFactories, call, eventRegs,
                     useCaseVars>>

RegisterEvent(eventType, modelName, fn) ==
  LET r == registerEvent(eventFactories, eventType, modelName, fn)
      valid == /\ eventType.t = "string" /\ modelName.t = "string"
               /\ toUpperCase(eventType.v) \in {CREATE, UPDATE, DELETE}
               /\ fn.t = "function"
      e == toUpperCase(eventType.v)
      m == toUpperCase(modelName.v)
      before == {x \in eventRegs : x.eventType = e /\ x.modelName = m}
  IN  /\ nOps < MaxOps
      /\ nOps' = nOps + 1
      /\ eventFactories' = r.reg
      /\ lastOp' = Op("registerEvent", modelName, eventType, fn,
                      r.threw, r.err, r.accessed, <<>>)
      /\ eventRegs' =
           IF valid
             THEN (eventRegs \ before) \cup
                  {[eventType |-> e, modelName |-> m, fn |-> fn,
                    prev |-> IF before = {} THEN Undefined
                             ELSE (CHOOSE x \in before : TRUE).fn]}
             ELSE eventRegs
      /\ UNCHANGED <<modelFactories, call, useCaseVars>>

ListModels ==
  /\ nOps < MaxOps
  /\ nOps' = nOps + 1
  /\ lastOp' = Op("listModels", Undefined, Undefined, Undefined,
                  FALSE, NoError, TRUE, listModels(modelFactories))
  /\ UNCHANGED <<modelFactories, eventFactories, call,
                 eventRegs, useCaseVars>>

(* createModel called directly, lines 213-226: up to the await of the      *)
(* registered factory, or the rejection.                                   *)
CreateModelCall(modelName, args) ==
  LET look == createModelLookup(modelFactories, modelName)
  IN  /\ nOps < MaxOps
      /\ call.pc # "awaitFactory"
      /\ nOps' = nOps + 1
      /\ call' = [n |-> nOps + 1, op |-> "createModel",
                  pc |-> IF look.threw THEN "rejected" ELSE "awaitFactory",
                  modelName |-> modelName, eventType |-> Undefined,
                  args |-> args, look |-> look, err |-> look.err,
                  result |-> EmptyBag,
                  invoked |-> IF look.threw THEN <<>>
                              ELSE <<[fn |-> look.factory, args |-> args]>>]
      /\ lastOp' = Op("createModel", modelName, Undefined, Undefined,
                      look.threw, look.err, look.accessed, <<>>)
      /\ UNCHANGED <<modelFactories, eventFactories, eventRegs, useCaseVars>>

(* The registered factory settles; on success the model is enriched and    *)
(* frozen, line 223.                                                       *)
CreateModelSettle(ok) ==
  /\ call.op = "createModel"
  /\ call.pc = "awaitFactory"
  /\ call' = IF ok
       THEN [call EXCEPT
               !.pc = "resolved",
               !.result = ModelCreate(
                            factoryOutput(call.look.factory, call.args),
                            call.look.modelName, uuid("c", call.n))]
       ELSE [call EXCEPT !.pc = "rejected", !.err = ErrModelFactory]
  /\ UNCHANGED <<modelFactories, eventFactories, lastOp, eventRegs, nOps,
                 useCaseVars>>

(* createEvent called directly, lines 236-253.                             *)
CreateEventCall_needsModel(eventType, modelName, args) ==
  LET found == createEventLookup(eventFactories, eventType, modelName)
      look == IF ~found.threw /\ ~MapHas(modelFactories, found.modelName)
                THEN Lookup(TRUE, ErrUnregisteredModel, TRUE, found.modelName,
                            found.eventType, Undefined)
                ELSE found
  IN  /\ nOps < MaxOps
      /\ call.pc # "awaitFactory"
      /\ nOps' = nOps + 1
      /\ call' = [n |-> nOps + 1, op |-> "createEvent",
                  pc |-> IF look.threw THEN "rejected" ELSE "awaitFactory",
                  modelName |-> modelName, eventType |-> eventType,
                  args |-> args, look |-> look, err |-> look.err,
                  result |-> EmptyBag,
                  invoked |-> IF look.threw THEN <<>>
                              ELSE <<[fn |-> look.factory, args |-> args]>>]
      /\ lastOp' = Op("createEvent", modelName, eventType, Undefined,
                      look.threw, look.err, look.accessed, <<>>)
      /\ UNCHANGED <<modelFactories, eventFactories, eventRegs, useCaseVars>>

CreateEventCall(eventType, modelName, args) ==
  LET look == createEventLookup(eventFactories, eventType, modelName)
  IN  /\ nOps < MaxOps
      /\ call.pc # "awaitFactory"
      /\ nOps' = nOps + 1
      /\ call' = [n |-> nOps + 1, op |-> "createEvent",
                  pc |-> IF look.threw THEN "rejected" ELSE "awaitFactory",
                  modelName |-> modelName, eventType |-> eventType,
                  args |-> args, look |-> look, err |-> look.err,
                  result |-> EmptyBag,
                  invoked |-> IF look.threw THEN <<>>
                              ELSE <<[fn |-> look.factory, args |-> args]>>]
      /\ lastOp' = Op("createEvent", modelName, eventType, Undefined,
                      look.threw, look.err, look.accessed, <<>>)
      /\ UNCHANGED <<modelFactories, eventFactories, eventRegs, useCaseVars>>

CreateEventSettle(ok) ==
  LET e == createEventResult(factoryOutput(call.look.factory, call.args),
                             call.look.eventType, call.look.modelName,
                             uuid("c", call.n))
  IN  /\ call.op = "createEvent"
      /\ call.pc = "awaitFactory"
      /\ call' = IF ~ok
           THEN [call EXCEPT !.pc = "rejected", !.err = ErrEventFactory]
           ELSE IF e.threw
             THEN [call EXCEPT !.pc = "rejected", !.err = e.err]
             ELSE [call EXCEPT !.pc = "resolved", !.result = e.val]
      /\ UNCHANGED <<modelFactories, eventFactories, lastOp, eventRegs,
                     nOps, useCaseVars>>

Next ==
  \/ Construct
  \/ \E n \in ModelNameArgs, f \in ModelFunctionArgs : RegisterModel(n, f)
  \/ \E e \in EventTypeArgs, n \in EventModelNameArgs,
        f \in EventFunctionArgs : RegisterEvent(e, n, f)
  \/ ListModels
  \/ \E n \in ModelNameArgs, a \in InputArgs : CreateModelCall(n, a)
  \/ \E ok \in BOOLEAN : CreateModelSettle(ok)
  \/ \E e \in EventTypeArgs, n \in EventModelNameArgs, a \in InputArgs :
       CreateEventCall(e, n, a)
  \/ \E ok \in BOOLEAN : CreateEventSettle(ok)

Spec == Init /\ [][Next]_vars

(* ----------------------------- use case -------------------------------- *)
HandlersArgs == {0, 1}   \* 0: handlers omitted (default []), 1: the caller's array
LogHandler(c) == [kind |-> "log", cfg |-> c]

(* line 25: handlers.push(event => log(event))                             *)
pushLog_none(handlers, c) == handlers
pushLog(handlers, c) == Append(handlers, LogHandler(c))

(* line 25 changes the array it is called on: the caller's array h after   *)
(* the push; the default array of a call without handlers (h = 0) belongs  *)
(* to that call alone.                                                     *)
pushInPlace_copy(arrays, h, handlers) == arrays

pushInPlace(arrays, h, handlers) ==
  IF h = 0 THEN arrays ELSE [arrays EXCEPT ![h] = handlers]

(* line 26: handlers.forEach(handler => observer.on(eventName, handler))   *)
subscribe(c, eventName, handlers) ==
  [i \in 1..Len(handlers) |->
     [cfg |-> c, eventName |-> eventName, handler |-> handlers[i]]]

(* addModelFactory, lines 16-36, as a function of the use cases, handlers  *)
(* arrays and subscriptions before the call.  ModelFactory.getEventName is *)
(* createEventName and ModelFactory.eventTypes is EventTypes; a throw of   *)
(* getEventName leaves before line 25.                                     *)
addModelFactory_rawName(modelName, h, ucs, arrays, ons) ==
  LET c == Len(ucs) + 1
      checked == createEventName(Str(CREATE), modelName)
      eventName == IF checked.threw THEN checked
                   ELSE Returned(CREATE \o modelName.v)
      given == IF h = 0 THEN <<>> ELSE arrays[h]
      handlers == pushLog(given, c)
      uc == [modelName |-> modelName, handlers |-> h, given |-> given,
             threw |-> eventName.threw, eventName |-> eventName.val]
  IN  IF eventName.threw
        THEN [useCases |-> Append(ucs, uc), handlerArrays |-> arrays,
              onCalls |-> ons]
        ELSE [useCases |-> Append(ucs, uc),
              handlerArrays |-> pushInPlace(arrays, h, handlers),
              onCalls |-> ons \o subscribe(c, eventName.val, handlers)]
addModelFactory(modelName, h, ucs, arrays, ons) ==
  LET c == Len(ucs) + 1
      eventName == createEventName(Str(CREATE), modelName)
      given == IF h = 0 THEN <<>> ELSE arrays[h]
      handlers == pushLog(given, c)
      uc == [modelName |-> modelName, handlers |-> h, given |-> given,
             threw |-> eventName.threw, eventName |-> eventName.val]
  IN  IF eventName.threw
        THEN [useCases |-> Append(ucs, uc), handlerArrays |-> arrays,
              onCalls |-> ons]
        ELSE [useCases |-> Append(ucs, uc),
              handlerArrays |-> pushInPlace(arrays, h, handlers),
              onCalls |-> ons \o subscribe(c, eventName.val, handlers)]

AddModelFactory(modelName, h) ==
  LET r == addModelFactory(modelName, h, useCases, handlerArrays, onCalls)
  IN  /\ Len(useCases) < MaxConfigs
      /\ useCases' = r.useCases
      /\ handlerArrays' = r.handlerArrays
      /\ onCalls' = r.onCalls
      /\ UNCHANGED <<registryVars, inv>>

(* The statements of addModel in program order, lines 30-34.               *)
addModelNext_notifyFirst(stage) ==
  CASE stage = "createModel" -> "createEvent"
    [] stage = "createEvent" -> "notify"
    [] stage = "notify" -> "save"
    [] stage = "save" -> "return"

addModelNext(stage) ==
  CASE stage = "createModel" -> "createEvent"
    [] stage = "createEvent" -> "save"
    [] stage = "save" -> "notify"
    [] stage = "notify" -> "return"

(* await, lines 30-33: a rejection leaves addModel with that reason, a     *)
(* fulfilment resumes at the next statement.                               *)
afterAwait_swallow(stage, ok, err) ==
  [stage |-> addModelNext(stage), phase |-> "ready", err |-> NoError]

afterAwait(stage, ok, err) ==
  IF ok THEN [stage |-> addModelNext(stage), phase |-> "ready", err |-> NoError]
        ELSE [stage |-> "rejected", phase |-> "ready", err |-> err]

Awaiting(i, stage) == inv[i].stage = stage /\ inv[i].phase = "await"
Ready(i, stage) == inv[i].stage = stage /\ inv[i].phase = "ready"
Resume(i, stage, ok, err) ==
  LET a == afterAwait(stage, ok, err)
  IN  [inv[i] EXCEPT !.stage = a.stage, !.phase = a.phase, !.err = a.err]

(* addModel(input) called, lines 28-30: getInstance returns the existing   *)
(* factory, createModel runs up to the await of the registered factory.    *)
(* Invocations are numbered in the order in which they are called.         *)
AddModelStart(i, u, input) ==
  LET look == createModelLookup(modelFactories, useCases[u].modelName)
  IN  /\ Ready(i, "idle")
      /\ \A j \in 1..(i - 1) : inv[j].stage # "idle"
      /\ ~useCases[u].threw
      /\ inv' = [inv EXCEPT ![i] =
           IF look.threw
             THEN [@ EXCEPT !.stage = "rejected", !.uc = u, !.input = input,
                            !.err = look.err,
                            !.trace = Append(@, Failure("createModel.failed",
                                                        look.err))]
             ELSE [@ EXCEPT !.stage = "createModel", !.phase = "await",
                            !.uc = u, !.input = input,
                            !.name = look.modelName,
                            !.factory = look.factory]]
      /\ UNCHANGED <<registryVars, handlerArrays, useCases, onCalls>>

(* Object.freeze, lines 223 and 248: what names the object of the         *)
(* invocation ("model" or "event") that is frozen.                         *)
ObjectFreeze_forgot(frozen, what) == frozen

ObjectFreeze(frozen, what) == frozen \cup {what}

(* o[k] = v on an object: a frozen object keeps its attributes (the        *)
(* assignment throws in strict mode and is ignored otherwise).             *)
assign(o, isFrozen, k, v) ==
  IF isFrozen THEN o ELSE Merge(o, [x \in {k} |-> v])

(* The model factory settles inside createModel, lines 217-223.            *)
ModelFactorySettle(i, ok) ==
  LET model == ModelCreate(factoryOutput(inv[i].factory, inv[i].input),
                           inv[i].name, uuid("m", i))
      r == Resume(i, "createModel", ok, ErrModelFactory)
  IN  /\ Awaiting(i, "createModel")
      /\ inv' = [inv EXCEPT ![i] =
           IF ok
             THEN [r EXCEPT !.model = model,
                     !.frozen = ObjectFreeze(@, "model"),
                     !.trace = Append(@, Effect("createModel.done",
                                                Undefined, model))]
             ELSE [r EXCEPT
                     !.trace = Append(@, Failure("createModel.failed",
                                                 ErrModelFactory))]]
      /\ UNCHANGED <<registryVars, handlerArrays, useCases, onCalls>>

(* addModel resumes at line 31: createEvent runs up to the await of the    *)
(* registered event factory, or throws.                                    *)
AddModelCreateEvent(i) ==
  LET look == createEventLookup(eventFactories, Str(CREATE),
                                useCases[inv[i].uc].modelName)
  IN  /\ Ready(i, "createEvent")
      /\ inv' = [inv EXCEPT ![i] =
           IF look.threw
             THEN [@ EXCEPT !.stage = "rejected", !.err = look.err,
                            !.trace = Append(@, Failure("createEvent.failed",
                                                        look.err))]
             ELSE [@ EXCEPT !.phase = "await", !.factory = look.factory]]
      /\ UNCHANGED <<registryVars, handlerArrays, useCases, onCalls>>

(* The event factory settles inside createEvent, lines 241-250.            *)
EventFactorySettle(i, ok) ==
  LET e == createEventResult(factoryOutput(inv[i].factory, inv[i].model),
                             CREATE, inv[i].name, uuid("e", i))
      reason == IF ok THEN e.err ELSE ErrEventFactory
      r == Resume(i, "createEvent", ok /\ ~e.threw, reason)
  IN  /\ Awaiting(i, "createEvent")
      /\ inv' = [inv EXCEPT ![i] =
           IF ok /\ ~e.threw
             THEN [r EXCEPT !.event = e.val,
                     !.frozen = ObjectFreeze(@, "event"),
                     !.trace = Append(@, Effect("createEvent.done",
                                                Undefined, e.val))]
             ELSE [r EXCEPT
                     !.trace = Append(@, Failure("createEvent.failed",
                                                 reason))]]
      /\ UNCHANGED <<registryVars, handlerArrays, useCases, onCalls>>

(* line 32: repository.save(model.id, model) is called.                    *)
AddModelSave_input(i) ==
  /\ Ready(i, "save")
  /\ inv' = [inv EXCEPT ![i] =
       [@ EXCEPT !.phase = "await",
                 !.trace = Append(@, Effect("save.call",
                                   Prop(inv[i].input, "id"), inv[i].input))]]
  /\ UNCHANGED <<registryVars, handlerArrays, useCases, onCalls>>
AddModelSave(i) ==
  /\ Ready(i, "save")
  /\ inv' = [inv EXCEPT ![i] =
       [@ EXCEPT !.phase = "await",
                 !.trace = Append(@, Effect("save.call",
                                   Prop(inv[i].model, "id"), inv[i].model))]]
  /\ UNCHANGED <<registryVars, handlerArrays, useCases, onCalls>>

(* The repository settles the save.                                        *)
SaveSettle(i, ok) ==
  LET r == Resume(i, "save", ok, ErrSave)
  IN  /\ Awaiting(i, "save")
      /\ inv' = [inv EXCEPT ![i] =
           IF ok
             THEN [r EXCEPT !.trace = Append(@, Effect("save.done",
                                                       Undefined, EmptyBag))]
             ELSE [r EXCEPT !.trace = Append(@, Failure("save.failed",
                                                        ErrSave))]]
      /\ UNCHANGED <<registryVars, handlerArrays, useCases, onCalls>>

(* line 33: observer.notify(event.getEventName(), event) is called.        *)
AddModelNotify_shared(i) ==
  LET last == CHOOSE j \in DOMAIN inv :
                /\ inv[j].event # EmptyBag
                /\ \A k \in DOMAIN inv : inv[k].event # EmptyBag => k <= j
  IN  /\ Ready(i, "notify")
      /\ inv' = [inv EXCEPT ![i] =
           [@ EXCEPT !.phase = "await",
                     !.trace = Append(@, Effect("notify.call",
                                       Prop(inv[last].event, "getEventName"),
                                       inv[last].event))]]
      /\ UNCHANGED <<registryVars, handlerArrays, useCases, onCalls>>

AddModelNotify(i) ==
  /\ Ready(i, "notify")
  /\ inv' = [inv EXCEPT ![i] =
       [@ EXCEPT !.phase = "await",
                 !.trace = Append(@, Effect("notify.call",
                                   Prop(inv[i].event, "getEventName"),
                                   inv[i].event))]]
  /\ UNCHANGED <<registryVars, handlerArrays, useCases, onCalls>>

(* The observer settles the notification; on success line 34 returns the   *)
(* model (stage "return").                                                 *)
NotifySettle(i, ok) ==
  LET r == Resume(i, "notify", ok, ErrNotify)
  IN  /\ Awaiting(i, "notify")
      /\ inv' = [inv EXCEPT ![i] =
           IF ok
             THEN [r EXCEPT !.trace = Append(@, Effect("notify.done",
                                                       Undefined, EmptyBag))]
             ELSE [r EXCEPT !.trace = Append(@, Failure("notify.failed",
                                                        ErrNotify))]]
      /\ UNCHANGED <<registryVars, handlerArrays, useCases, onCalls>>

(* Registries left by the registration calls made during wiring.           *)
SetupModelFactories ==
  {NewModelFactories,
   registerModel(NewModelFactories, Str(<<"o">>), Fn("f1")).reg}
SetupEventFactories(mf) ==
  {NewEventFactories} \cup
  {registerEvent(NewEventFactories, Str(<<"c", "r", "e", "a", "t", "e">>),
                 Str(<<"O">>), f).reg :
     f \in IF mf = NewMap THEN {} ELSE {Fn("echo"), Fn("named")}}

InitRegistered ==
  /\ modelFactories \in SetupModelFactories
  /\ eventFactories \in SetupEventFactories(modelFactories)
  /\ lastOp = NoOp
  /\ call = NoCall
  /\ eventRegs = {}
  /\ nOps = 0

Invocations == 1..MaxInvocations

(* The input of addModel invocation i: every invocation is called with an *)
(* input of its own.                                                       *)
InvocationInputs(i) == {[total |-> Str(<<ToString(i)>>)]}

(* The steps of addModel invocation i.                                     *)
AddModelStep(i) ==
  \/ \E u \in 1..Len(useCases), a \in InvocationInputs(i) :
       AddModelStart(i, u, a)
  \/ \E ok \in BOOLEAN : ModelFactorySettle(i, ok)
  \/ AddModelCreateEvent(i)
  \/ \E ok \in BOOLEAN : EventFactorySettle(i, ok)
  \/ AddModelSave(i)
  \/ \E ok \in BOOLEAN : SaveSettle(i, ok)
  \/ AddModelNotify(i)
  \/ \E ok \in BOOLEAN : NotifySettle(i, ok)

(* Configuration: after the registrations of the wiring, use cases are     *)
(* configured while one addModel invocation runs.                          *)
InitConfig == InitRegistered /\ InitUseCaseVars

NextConfig ==
  \/ \E n \in UseCaseNameArgs, h \in HandlersArgs : AddModelFactory(n, h)
  \/ AddModelStep(1)

SpecConfig == InitConfig /\ [][NextConfig]_vars

(* Invocations: one use case was configured after the registrations of the *)
(* wiring; addModel invocations interleave at their awaits.                *)
InitUseCase ==
  /\ InitRegistered
  /\ inv = [i \in Invocations |-> NoInvocation]
  /\ \E n \in {Str(<<"o">>), Str(<<"O">>)}, h \in HandlersArgs :
       LET r == addModelFactory(n, h, <<>>, <<<<CallerHandler>>>>, <<>>)
       IN  /\ useCases = r.useCases
           /\ handlerArrays = r.handlerArrays
           /\ onCalls = r.onCalls

NextUseCase == \E i \in Invocations : AddModelStep(i)

SpecUseCase == InitUseCase /\ [][NextUseCase]_vars

(* A holder of the model or of the event of invocation i (the event        *)
(* function, the repository, a subscribed handler, the caller of addModel) *)
(* assigns v to its attribute k; each (object, attribute) is tried once.   *)
AssignKeys == {"id", "extra"}
AssignAttribute(i, what, k, v) ==
  /\ inv[i][what] # EmptyBag
  /\ <<what, k>> \notin inv[i].attempts
  /\ inv' = [inv EXCEPT ![i] =
       [@ EXCEPT ![what] = assign(@, what \in inv[i].frozen, k, v),
                 !.attempts = @ \cup {<<what, k>>}]]
  /\ UNCHANGED <<registryVars, handlerArrays, useCases, onCalls>>

(* Immutability: one addModel invocation runs while the holders of its     *)
(* model and event try to change them.                                     *)
NextImmutable ==
  \/ AddModelStep(1)
  \/ \E what \in {"model", "event"}, k \in AssignKeys :
       AssignAttribute(1, what, k, Str(<<"x">>))

SpecImmutable == InitUseCase /\ [][NextImmutable]_vars

(* ============================== claims ================================= *)
(* A step that is a call of the registry operation op.                     *)
OpStep(op) == nOps' = nOps + 1 /\ lastOp'.op = op
IsName(v) == v.t = "string"
IsEventType(v) == v.t = "string" /\ toUpperCase(v.v) \in {CREATE, UPDATE, DELETE}
SameEntries(m1, m2) ==
  \A k \in MapKeys(m1) : MapHas(m2, k) /\ MapGet(m2, k) = MapGet(m1, k)

(* C3: first registration wins for models.  A registerModel call, whatever *)
(* its name's letter case and its function, leaves every existing entry of *)
(* the model registry as it is, and a createModel call for a name whose    *)
(* canonical form has an entry calls the function of that entry.           *)
C3_FirstRegistrationWins ==
  [][ /\ OpStep("registerModel") =>
           /\ Len(modelFactories') >= Len(modelFactories)
           /\ \A i \in 1..Len(modelFactories) :
                modelFactories'[i] = modelFactories[i]
      /\ ( /\ OpStep("createModel")
           /\ IsName(lastOp'.modelName)
           /\ MapHas(modelFactories, toUpperCase(lastOp'.modelName.v)) ) =>
           /\ call'.pc = "awaitFactory"
           /\ call'.look.factory =
                MapGet(modelFactories, toUpperCase(lastOp'.modelName.v))
    ]_vars

(* C3 witness: registerModel("o", f2) returned while the entry for "O"     *)
(* still holds f1.                                                         *)
C3_Witness ==
  /\ lastOp.op = "registerModel"
  /\ lastOp.modelName = Str(<<"o">>)
  /\ lastOp.fn = Fn("f2")
  /\ ~lastOp.threw
  /\ MapHas(modelFactories, <<"O">>)
  /\ MapGet(modelFactories, <<"O">>) = Fn("f1")

(* C4: last registration wins for events.  A valid registerEvent call with *)
(* a callable function makes that function the entry of its canonical      *)
(* pair and changes no other pair; a createEvent call that finds an entry  *)
(* calls the function of the latest such registerEvent call for the pair.  *)
C4_LastRegistrationWins ==
  [][ /\ ( /\ OpStep("registerEvent")
           /\ IsName(lastOp'.modelName)
           /\ IsEventType(lastOp'.eventType)
           /\ lastOp'.fn.t = "function" ) =>
           LET e == toUpperCase(lastOp'.eventType.v)
               m == toUpperCase(lastOp'.modelName.v)
           IN  /\ MapHas(eventFactories'[e], m)
               /\ MapGet(eventFactories'[e], m) = lastOp'.fn
               /\ \A e2 \in EventTypeKeys :
                    /\ MapKeys(eventFactories'[e2]) =
                         MapKeys(eventFactories[e2])
                           \cup (IF e2 = e THEN {m} ELSE {})
                    /\ \A k \in MapKeys(eventFactories[e2]) :
                         <<e2, k>> # <<e, m>> =>
                           MapGet(eventFactories'[e2], k) =
                             MapGet(eventFactories[e2], k)
      /\ (OpStep("createEvent") /\ ~lastOp'.threw) =>
           \E x \in eventRegs :
             /\ x.eventType = toUpperCase(lastOp'.eventType.v)
             /\ x.modelName = toUpperCase(lastOp'.modelName.v)
             /\ x.fn = call'.look.factory
    ]_vars

(* C4 witness: createEvent called the function of a registration that      *)
(* replaced a different function registered before for the same pair.      *)
C4_Witness ==
  /\ call.op = "createEvent"
  /\ call.pc \in {"awaitFactory", "resolved"}
  /\ \E x \in eventRegs :
       /\ x.eventType = call.look.eventType
       /\ x.modelName = call.look.modelName
       /\ x.prev.t = "function"
       /\ x.prev # x.fn
       /\ x.fn = call.look.factory

(* C5: createModel for a name without an entry rejects with "unregistered  *)
(* model", createEvent for a valid pair without an entry rejects with      *)
(* "unregistered model event"; no registered function is called and both   *)
(* registry mappings stay as they were.                                    *)
C5_UnregisteredRejects ==
  [][ /\ ( /\ OpStep("createModel")
           /\ IsName(lastOp'.modelName)
           /\ ~MapHas(modelFactories, toUpperCase(lastOp'.modelName.v)) ) =>
           /\ call'.pc = "rejected"
           /\ call'.err = ErrUnregisteredModel
           /\ call'.look.factory = Undefined
           /\ modelFactories' = modelFactories
           /\ eventFactories' = eventFactories
      /\ ( /\ OpStep("createEvent")
           /\ IsName(lastOp'.modelName)
           /\ IsEventType(lastOp'.eventType)
           /\ ~MapHas(eventFactories[toUpperCase(lastOp'.eventType.v)],
                      toUpperCase(lastOp'.modelName.v)) ) =>
           /\ call'.pc = "rejected"
           /\ call'.err = ErrUnregisteredEvent
           /\ call'.look.factory = Undefined
           /\ modelFactories' = modelFactories
           /\ eventFactories' = eventFactories
      /\ call.pc = "rejected" => call'.n # call.n \/ call' = call
    ]_vars

(* C5 witness: createModel rejected as unregistered while the registry     *)
(* holds other entries.                                                    *)
C5_Witness ==
  /\ lastOp.op = "createModel"
  /\ call.pc = "rejected"
  /\ call.err = ErrUnregisteredModel
  /\ modelFactories # NewMap
  /\ \E e \in EventTypeKeys : eventFactories[e] # NewMap

(* C6: no step removes an entry of the model registry or of the event      *)
(* registry.                                                               *)
C6_NeverUnregistered ==
  [][ /\ \A k \in MapKeys(modelFactories) : MapHas(modelFactories', k)
      /\ \A e \in EventTypeKeys : \A k \in MapKeys(eventFactories[e]) :
           MapHas(eventFactories'[e], k)
    ]_vars

(* C7: an event that createEvent resolved with carries, as eventName and   *)
(* as the value of getEventName(), the upper-cased event type followed by  *)
(* the upper-cased model name of the call, whatever the registered         *)
(* function returned.                                                      *)
C7_EventName ==
  (call.op = "createEvent" /\ call.pc = "resolved") =>
    LET expected == Str(toUpperCase(call.eventType.v)
                          \o toUpperCase(call.modelName.v))
    IN  /\ Prop(call.result, "getEventName") = expected
        /\ Prop(call.result, "eventName") = expected

(* C7 witness: createEvent("create", "o") resolved through a function      *)
(* whose output has eventName, eventType and modelName of its own.         *)
C7_Witness ==
  /\ call.op = "createEvent"
  /\ call.pc = "resolved"
  /\ call.look.factory = Fn("named")
  /\ call.eventType = Str(<<"c", "r", "e", "a", "t", "e">>)
  /\ call.modelName = Str(<<"o">>)
  /\ Prop(factoryOutput(Fn("named"), call.args), "eventName") = Str(<<"x">>)

(* C8: registerModel with a model name that is not a non-empty string      *)
(* throws the invalid-name error and leaves the registry unchanged.        *)
C8_RejectsInvalidName ==
  [][ ( /\ OpStep("registerModel")
        /\ ~(IsName(lastOp'.modelName) /\ lastOp'.modelName.v # <<>>) ) =>
        /\ lastOp'.threw
        /\ lastOp'.err = ErrModelName
        /\ modelFactories' = modelFactories
    ]_vars

(* C9: registerEvent and createEvent with an event type that is not a      *)
(* string, or not CREATE, UPDATE or DELETE once upper-cased, throw before  *)
(* the registry is read or written and before any function is called.      *)
C9_InvalidEventTypeRejected ==
  [][ ( /\ OpStep("registerEvent") \/ OpStep("createEvent")
        /\ ~IsEventType(lastOp'.eventType) ) =>
        /\ lastOp'.threw
        /\ ~lastOp'.accessed
        /\ modelFactories' = modelFactories
        /\ eventFactories' = eventFactories
        /\ OpStep("createEvent") =>
             call'.pc = "rejected" /\ call'.look.factory = Undefined
    ]_vars

(* C9 witness: registerEvent("read", "o", f) with a callable f threw the   *)
(* event type error.                                                       *)
C9_Witness ==
  /\ lastOp.op = "registerEvent"
  /\ lastOp.eventType = Str(<<"r", "e", "a", "d">>)
  /\ lastOp.modelName = Str(<<"o">>)
  /\ lastOp.fn.t = "function"
  /\ lastOp.threw
  /\ lastOp.err = ErrEventType

(* Positions of the effect e in a trace.                                   *)
At(t, e) == {k \in 1..Len(t) : t[k].e = e}
(* Every occurrence of e2 in t has an occurrence of e1 before it.          *)
Precedes(t, e1, e2) == \A k \in At(t, e2) : \E j \in At(t, e1) : j < k

(* C1: in every addModel invocation createModel completes before           *)
(* createEvent completes, createEvent completes before save is called,     *)
(* and save completes before notify is called.                             *)
C1_SaveBeforeNotify ==
  \A i \in Invocations :
    LET t == inv[i].trace
    IN  /\ Precedes(t, "save.done", "notify.call")
        /\ Precedes(t, "createEvent.done", "save.call")
        /\ Precedes(t, "createEvent.done", "notify.call")
        /\ Precedes(t, "createModel.done", "createEvent.done")

(* C1 witness: an invocation has called notify.                            *)
C1_Witness ==
  \E i \in Invocations :
    /\ At(inv[i].trace, "notify.call") # {}
    /\ At(inv[i].trace, "save.done") # {}

Failures == {"createModel.failed", "createEvent.failed", "save.failed",
             "notify.failed"}

(* C2: when a step of addModel fails nothing follows it in the             *)
(* invocation: the failure is the last entry of the trace, the invocation  *)
(* is rejected with the reason of that failure, and an invocation that     *)
(* returned has no failure.                                                *)
C2_FailureShortCircuits ==
  \A i \in Invocations :
    LET t == inv[i].trace
    IN  /\ \A k \in 1..Len(t) : t[k].e \in Failures =>
             /\ k = Len(t)
             /\ inv[i].stage = "rejected"
             /\ inv[i].err = t[k].err
        /\ inv[i].stage = "rejected" => t # <<>> /\ t[Len(t)].e \in Failures
        /\ At(t, "createModel.failed") # {} \/ At(t, "createEvent.failed") # {}
             => At(t, "save.call") = {} /\ At(t, "notify.call") = {}
        /\ At(t, "save.failed") # {} => At(t, "notify.call") = {}

(* C2 witness: one invocation was rejected by the repository, another      *)
(* because no CREATE event function is registered for the model.           *)
C2_Witness ==
  \E i, j \in Invocations :
    /\ inv[i].stage = "rejected"
    /\ inv[i].err = ErrSave
    /\ inv[j].stage = "rejected"
    /\ inv[j].err \in {ErrUnregisteredEvent, ErrEventFactory}

OnCallsOf(c) == SelectSeq(onCalls, LAMBDA x : x.cfg = c)

(* C10: an addModelFactory call that configures a use case calls           *)
(* observer.on once per handler it was given, in order, and once more for  *)
(* its log handler, each time under "CREATE" followed by the upper-cased   *)
(* model name (a call that throws on the model name subscribes nothing);   *)
(* no step of an addModel invocation calls observer.on.                    *)
C10_Subscriptions ==
  \A c \in 1..Len(useCases) :
    LET u == useCases[c]
        on == OnCallsOf(c)
    IN  IF u.threw
          THEN on = <<>>
          ELSE /\ Len(on) = Len(u.given) + 1
               /\ \A k \in 1..Len(u.given) : on[k].handler = u.given[k]
               /\ on[Len(on)].handler = LogHandler(c)
               /\ \A k \in 1..Len(on) :
                    on[k].eventName = CREATE \o toUpperCase(u.modelName.v)

C10_SubscribedOnce ==
  [][ /\ C10_Subscriptions'
      /\ inv' # inv => onCalls' = onCalls
      /\ onCalls' # onCalls => Len(useCases') = Len(useCases) + 1
    ]_vars

(* C10 witness: every configuration call was made and an invocation of a   *)
(* use case configured with the caller's handlers has returned.            *)
C10_Witness ==
  /\ Len(useCases) = MaxConfigs
  /\ \E c \in 1..Len(useCases) :
       /\ ~useCases[c].threw
       /\ useCases[c].given # <<>>
       /\ inv[1].uc = c
       /\ inv[1].stage = "return"


(* The entries of the effect e in a trace, in order.                       *)
Entries(t, e) == SelectSeq(t, LAMBDA x : x.e = e)

(* C11: an addModel invocation that returned called repository.save        *)
(* exactly once, with the id of its model and the model, and called        *)
(* observer.notify exactly once, with "CREATE" followed by the upper-cased *)
(* model name of its use case and the event that createEvent built from    *)
(* the saved model; the model it returns is the one it saved.              *)
C11_SavedNotifiedReturned ==
  \A i \in Invocations : inv[i].stage = "return" =>
    LET t == inv[i].trace
        saves == Entries(t, "save.call")
        notifies == Entries(t, "notify.call")
        made == Entries(t, "createModel.done")
    IN  /\ Len(saves) = 1
        /\ Len(notifies) = 1
        /\ Len(made) = 1
        /\ saves[1].a2 = made[1].a2
        /\ saves[1].a1 = made[1].a2.id
        /\ saves[1].a1.t = "string"
        /\ notifies[1].a1 =
             Str(CREATE \o toUpperCase(useCases[inv[i].uc].modelName.v))
        /\ notifies[1].a2 =
             createEventResult(factoryOutput(inv[i].factory, saves[1].a2),
                               CREATE, toUpperCase(
                                 useCases[inv[i].uc].modelName.v),
                               uuid("e", i)).val
        /\ notifies[1].a2 = inv[i].event
        /\ inv[i].model = saves[1].a2

(* C11 witness: an invocation of a use case configured for "o" returned    *)
(* after its event function echoed the model.                              *)
C11_Witness ==
  \E i \in Invocations :
    /\ inv[i].stage = "return"
    /\ useCases[inv[i].uc].modelName = Str(<<"o">>)
    /\ inv[i].factory = Fn("echo")
    /\ Prop(inv[i].event, "total") = Prop(inv[i].input, "total")


(* The strings of S that differ from v in letter case only.                *)
CaseVariants(v, S) ==
  {w \in S : w.t = "string" /\ toUpperCase(w.v) = toUpperCase(v.v)}
NameVariants ==
  {Str(<<"o">>), Str(<<"O">>), Str(<<>>)}
EventTypeVariants ==
  {Str(<<"c", "r", "e", "a", "t", "e">>), Str(<<"C", "r", "e", "a", "t", "e">>),
   Str(CREATE), Str(<<"u", "p", "d", "a", "t", "e">>),
   Str(<<"U", "p", "d", "a", "t", "e">>), Str(UPDATE),
   Str(<<"d", "e", "l", "e", "t", "e">>), Str(DELETE)}

(* C12: registry keys are case-insensitive.  After a registerModel call    *)
(* that inserted a function, createModel resolves to that function under   *)
(* every case variant of the name; a createModel call resolves as it would *)
(* under any other case variant of its name.  The same holds for           *)
(* registerEvent and createEvent under the case variants of both the event *)
(* type and the model name.                                                *)
C12_CaseInsensitiveKeys ==
  [][ /\ ( /\ OpStep("registerModel")
           /\ IsName(lastOp'.modelName)
           /\ modelFactories' # modelFactories ) =>
           \A w \in CaseVariants(lastOp'.modelName, NameVariants) :
             LET look == createModelLookup(modelFactories', w)
             IN  ~look.threw /\ look.factory = lastOp'.fn
      /\ (OpStep("createModel") /\ IsName(lastOp'.modelName)) =>
           \A w \in CaseVariants(lastOp'.modelName, NameVariants) :
             createModelLookup(modelFactories, w) = call'.look
      /\ ( /\ OpStep("registerEvent")
           /\ IsName(lastOp'.modelName)
           /\ IsEventType(lastOp'.eventType)
           /\ lastOp'.fn.t = "function" ) =>
           \A w \in CaseVariants(lastOp'.modelName, NameVariants),
              e \in CaseVariants(lastOp'.eventType, EventTypeVariants) :
             LET look == createEventLookup(eventFactories', e, w)
             IN  ~look.threw /\ look.factory = lastOp'.fn
      /\ ( /\ OpStep("createEvent")
           /\ IsName(lastOp'.modelName)
           /\ IsEventType(lastOp'.eventType) ) =>
           \A w \in CaseVariants(lastOp'.modelName, NameVariants),
              e \in CaseVariants(lastOp'.eventType, EventTypeVariants) :
             createEventLookup(eventFactories, e, w) = call'.look
    ]_vars

(* C12 witness: createModel("o") awaits the function stored under "O"      *)
(* while an UPDATE event function is stored under "O" too.                 *)
C12_Witness ==
  /\ call.op = "createModel"
  /\ call.modelName = Str(<<"o">>)
  /\ call.pc = "awaitFactory"
  /\ MapKeys(modelFactories) = {<<"O">>}
  /\ call.look.factory = MapGet(modelFactories, <<"O">>)
  /\ MapKeys(eventFactories[UPDATE]) = {<<"O">>}


(* A model-type name the data model calls valid: a non-empty string.       *)
ValidName(v) == IsName(v) /\ v.v # <<>>

(* C13: for every valid name, a registerModel call that inserts a function *)
(* makes it the entry of the upper-cased name; a createModel call for a    *)
(* valid name with an entry calls the function of the entry once, with the *)
(* arguments of the call; the model it resolves with carries what the      *)
(* function returned, a non-empty id, the upper-cased name as the value of *)
(* getModelName() and a createTime field.                                  *)
C13_RegisterThenCreate ==
  [][ /\ ( /\ OpStep("registerModel")
           /\ ValidName(lastOp'.modelName)
           /\ lastOp'.fn.t = "function"
           /\ ~MapHas(modelFactories, toUpperCase(lastOp'.modelName.v)) ) =>
           /\ MapHas(modelFactories', toUpperCase(lastOp'.modelName.v))
           /\ MapGet(modelFactories', toUpperCase(lastOp'.modelName.v))
                = lastOp'.fn
      /\ ( /\ OpStep("createModel")
           /\ ValidName(lastOp'.modelName)
           /\ MapHas(modelFactories, toUpperCase(lastOp'.modelName.v)) ) =>
           /\ call'.pc = "awaitFactory"
           /\ call'.invoked =
                <<[fn |-> MapGet(modelFactories,
                                 toUpperCase(lastOp'.modelName.v)),
                   args |-> call'.args]>>
      /\ ( /\ call.op = "createModel"
           /\ ValidName(call.modelName)
           /\ call.pc = "awaitFactory"
           /\ call'.pc = "resolved" ) =>
           LET m == call'.result
               out == factoryOutput(call.invoked[1].fn, call.invoked[1].args)
           IN  /\ call'.invoked = call.invoked
               /\ Len(call.invoked) = 1
               /\ \A k \in DOMAIN out : Prop(m, k) = out[k]
               /\ Prop(m, "id").t = "string"
               /\ Prop(m, "id").v # <<>>
               /\ Prop(m, "getId") = Prop(m, "id")
               /\ Prop(m, "getModelName") =
                    Str(toUpperCase(call.modelName.v))
               /\ "createTime" \in DOMAIN m
               /\ Prop(m, "createTime") = timeStamp
    ]_vars

(* C13 witness: createModel("o", args) resolved with a model made by the   *)
(* function registered for "O" from the arguments of the call.             *)
C13_Witness ==
  /\ call.op = "createModel"
  /\ call.pc = "resolved"
  /\ call.modelName = Str(<<"o">>)
  /\ MapHas(modelFactories, <<"O">>)
  /\ call.invoked = <<[fn |-> MapGet(modelFactories, <<"O">>),
                       args |-> call.args]>>
  /\ Prop(call.result, "total") = Prop(call.args, "total")
  /\ Prop(call.result, "getModelName") = Str(<<"O">>)


(* C14: once createModel has returned a model, or createEvent an event,    *)
(* the object has the same attributes in every later state: an assignment  *)
(* that adds or changes an attribute, tried while the invocation creates   *)
(* the event, saves, notifies or after it returned, has no effect.         *)
C14_Immutable ==
  [][ \A i \in Invocations :
        /\ inv[i].model # EmptyBag => inv'[i].model = inv[i].model
        /\ inv[i].event # EmptyBag => inv'[i].event = inv[i].event
    ]_vars

(* C14 witness: the invocation returned after assignments to the id of its *)
(* model and to a new attribute of its event were tried.                   *)
C14_Witness ==
  \E i \in Invocations :
    /\ inv[i].stage = "return"
    /\ <<"model", "id">> \in inv[i].attempts
    /\ <<"event", "extra">> \in inv[i].attempts
    /\ Prop(inv[i].model, "id") # Str(<<"x">>)
    /\ "extra" \notin DOMAIN inv[i].event


(* What invocation i has done so far concerns its own input only: the      *)
(* model it created, saved and returns carries its input, the event it     *)
(* notifies with is the one createEvent built from that model, no other    *)
(* invocation has a model or an event with the same id, and notify is      *)
(* called after its own save completed.                                    *)
C15_Own(i) ==
  LET t == inv[i].trace
      made == Entries(t, "createModel.done")
      saves == Entries(t, "save.call")
      notifies == Entries(t, "notify.call")
  IN  /\ \A k \in 1..Len(made) :
           /\ Prop(made[k].a2, "total") = Prop(inv[i].input, "total")
           /\ made[k].a2 = inv[i].model
      /\ \A k \in 1..Len(saves) :
           /\ saves[k].a2 = inv[i].model
           /\ saves[k].a1 = Prop(inv[i].model, "id")
      /\ \A k \in 1..Len(notifies) :
           /\ notifies[k].a2 = inv[i].event
           /\ notifies[k].a2 =
                createEventResult(factoryOutput(inv[i].factory, inv[i].model),
                                  CREATE, inv[i].name, uuid("e", i)).val
      /\ Precedes(t, "save.done", "notify.call")
      /\ inv[i].stage = "return" => Len(saves) = 1 /\ Len(notifies) = 1
      /\ \A j \in Invocations \ {i} :
           /\ inv[i].model # EmptyBag =>
                Prop(inv[j].model, "id") # Prop(inv[i].model, "id")
           /\ inv[i].event # EmptyBag =>
                Prop(inv[j].event, "id") # Prop(inv[i].event, "id")

(* C15: under every interleaving of the addModel invocations at their      *)
(* awaits each invocation saves and returns its own model, notifies with   *)
(* the event built from its own model after its own save completed; a step *)
(* of one invocation changes no other invocation, and no step changes the  *)
(* model registry or the event registry.                                   *)
C15_Independent ==
  /\ [](\A i \in Invocations : C15_Own(i))
  /\ [][ /\ \A i, j \in Invocations :
              (i # j /\ inv'[i] # inv[i]) => inv'[j] = inv[j]
         /\ modelFactories' = modelFactories
         /\ eventFactories' = eventFactories
       ]_vars

(* C15 witness: the second invocation overtook the first: it awaits its    *)
(* notification while the first still awaits its save.                     *)
C15_Witness ==
  /\ Awaiting(1, "save")
  /\ Awaiting(2, "notify")
  /\ Prop(inv[1].model, "total") # Prop(inv[2].model, "total")


(* C16: whenever an addModel invocation calls observer.notify, the event   *)
(* name it passes, the event's getEventName(), is the name under which the *)
(* addModelFactory call of its use case subscribed every handler, whatever *)
(* the letter case of the use case's model name and whatever the event     *)
(* function returned.                                                      *)
C16_NotifiesSubscribedName ==
  \A i \in Invocations :
    \A k \in At(inv[i].trace, "notify.call") :
      LET n == inv[i].trace[k]
          on == OnCallsOf(inv[i].uc)
      IN  /\ n.a1 = Prop(n.a2, "getEventName")
          /\ n.a1.t = "string"
          /\ on # <<>>
          /\ \A x \in 1..Len(on) : on[x].eventName = n.a1.v

(* C16 witness: an invocation of a use case configured for "o" notified    *)
(* with an event whose function returned an event name of its own.         *)
C16_Witness ==
  \E i \in Invocations :
    /\ At(inv[i].trace, "notify.call") # {}
    /\ useCases[inv[i].uc].modelName = Str(<<"o">>)
    /\ inv[i].factory = Fn("named")
    /\ Len(OnCallsOf(inv[i].uc)) > 1


(* C17: the event registry is independent of the model registry.  A valid  *)
(* registerEvent call with a callable function inserts its entry and       *)
(* leaves the model registry alone, whether or not the model name has a    *)
(* model function; a valid createEvent call calls the function of the      *)
(* entry of its pair when the mapping of its event type has one and        *)
(* rejects as an unregistered event otherwise, whatever the model registry *)
(* and the mappings of the other event types hold; registerModel and       *)
(* createModel leave the event mappings as they are and their outcome is   *)
(* decided by the model registry alone.                                    *)
C17_EventRegistryIndependent ==
  [][ /\ ( /\ OpStep("registerEvent")
           /\ IsName(lastOp'.modelName)
           /\ IsEventType(lastOp'.eventType)
           /\ lastOp'.fn.t = "function" ) =>
           /\ MapHas(eventFactories'[toUpperCase(lastOp'.eventType.v)],
                     toUpperCase(lastOp'.modelName.v))
           /\ MapGet(eventFactories'[toUpperCase(lastOp'.eventType.v)],
                     toUpperCase(lastOp'.modelName.v)) = lastOp'.fn
      /\ OpStep("registerEvent") \/ OpStep("createEvent") =>
           modelFactories' = modelFactories
      /\ ( /\ OpStep("createEvent")
           /\ IsName(lastOp'.modelName)
           /\ IsEventType(lastOp'.eventType) ) =>
           LET e == toUpperCase(lastOp'.eventType.v)
               m == toUpperCase(lastOp'.modelName.v)
           IN  IF MapHas(eventFactories[e], m)
                 THEN /\ call'.pc = "awaitFactory"
                      /\ call'.look.factory = MapGet(eventFactories[e], m)
                 ELSE /\ call'.pc = "rejected"
                      /\ call'.err = ErrUnregisteredEvent
      /\ OpStep("registerModel") \/ OpStep("createModel") =>
           eventFactories' = eventFactories
      /\ (OpStep("createModel") /\ IsName(lastOp'.modelName)) =>
           (call'.pc = "awaitFactory") =
             MapHas(modelFactories, toUpperCase(lastOp'.modelName.v))
      /\ ( /\ call.op = "createEvent"
           /\ call.pc = "awaitFactory"
           /\ nOps' = nOps ) =>
           call'.pc \in {"resolved", "rejected"}
    ]_vars

(* C17 witness: createEvent("Update", "o") resolved through the function   *)
(* registered for the pair while the model registry has no entry for "O".  *)
C17_Witness ==
  /\ call.op = "createEvent"
  /\ call.pc = "resolved"
  /\ call.eventType = Str(<<"U", "p", "d", "a", "t", "e">>)
  /\ call.look.modelName = <<"O">>
  /\ ~MapHas(modelFactories, <<"O">>)
  /\ eventFactories[DELETE] = NewMap


(* C18: the event createEvent returns in an addModel invocation carries an *)
(* id generated for it, different from the id of the model passed in, also *)
(* when the event function echoes the model; its modelName and eventType   *)
(* are the upper-cased model name of the use case and "CREATE", whatever   *)
(* the event function returned; every other attribute is the one the event *)
(* function returned, and the model is still the one createModel returned. *)
C18_MetadataOverrides ==
  \A i \in Invocations : inv[i].event # EmptyBag =>
    LET event == inv[i].event
        model == inv[i].model
        out == factoryOutput(inv[i].factory, model)
        made == Entries(inv[i].trace, "createModel.done")
    IN  /\ Prop(event, "id").t = "string"
        /\ Prop(event, "id") # Prop(model, "id")
        /\ Prop(event, "getId") = Prop(event, "id")
        /\ Prop(event, "modelName") =
             Str(toUpperCase(useCases[inv[i].uc].modelName.v))
        /\ Prop(event, "eventType") = Str(CREATE)
        /\ Prop(event, "getEventName") =
             Str(CREATE \o toUpperCase(useCases[inv[i].uc].modelName.v))
        /\ \A k \in DOMAIN out :
             k \notin {"id", "getId", "generateId", "modelName", "eventType",
                       "eventName", "getEventName", "createTime"} =>
               Prop(event, k) = out[k]
        /\ Len(made) = 1
        /\ model = made[1].a2
        /\ Prop(model, "id").t = "string"

(* C18 witness: the event function echoed the model: the event carries the *)
(* model's attributes, among them its getModelName, and an id of its own.  *)
C18_Witness ==
  \E i \in Invocations :
    /\ inv[i].event # EmptyBag
    /\ inv[i].factory = Fn("echo")
    /\ Prop(inv[i].event, "total") = Prop(inv[i].model, "total")
    /\ Prop(inv[i].event, "getModelName") = Prop(inv[i].model, "getModelName")
    /\ Prop(inv[i].event, "id") # Prop(inv[i].model, "id")
    /\ useCases[inv[i].uc].modelName = Str(<<"o">>)


(* The addModelFactory calls up to call c that were given the caller's     *)
(* array and reached the push.                                             *)
PushesUpTo(c) ==
  {d \in 1..c : useCases[d].handlers = 1 /\ ~useCases[d].threw}

(* C19: the log handler is appended to the caller's array in place.  The   *)
(* array holds its original handlers followed by one log handler per       *)
(* addModelFactory call it was passed to (and that did not throw on the    *)
(* model name); the k-th such call subscribes the original handlers and k  *)
(* log handlers, the last of them its own; a call without handlers         *)
(* subscribes its log handler and nothing else.                            *)
C19_AppendsInPlace ==
  /\ Len(handlerArrays[1]) = 1 + Cardinality(PushesUpTo(Len(useCases)))
  /\ handlerArrays[1][1] = CallerHandler
  /\ \A c \in 1..Len(useCases) : ~useCases[c].threw =>
       LET on == OnCallsOf(c)
           k == Cardinality(PushesUpTo(c))
       IN  IF useCases[c].handlers = 1
             THEN /\ Len(on) = 1 + k
                  /\ on[1].handler = CallerHandler
                  /\ \A x \in 2..Len(on) : on[x].handler.kind = "log"
                  /\ {on[x].handler.cfg : x \in 2..Len(on)} = PushesUpTo(c)
                  /\ on[Len(on)].handler = LogHandler(c)
                  /\ \A x \in 1..Len(on) : on[x].handler = handlerArrays[1][x]
             ELSE /\ Len(on) = 1
                  /\ on[1].handler = LogHandler(c)

(* C19 witness: the caller's array was passed to every configuration call  *)
(* and the last call subscribed one log handler per call.                  *)
C19_Witness ==
  /\ Len(useCases) = MaxConfigs
  /\ PushesUpTo(Len(useCases)) = 1..MaxConfigs
  /\ Len(OnCallsOf(MaxConfigs)) = 1 + MaxConfigs
  /\ Len(OnCallsOf(1)) = 2


(* The last call was registerModel with a function that is not callable,   *)
(* for a valid name whose upper-cased form is key.                         *)
AfterNonCallable(key) ==
  /\ lastOp.op = "registerModel"
  /\ ValidName(lastOp.modelName)
  /\ lastOp.fn.t # "function"
  /\ toUpperCase(lastOp.modelName.v) = key

(* C20: registerModel with a valid name and a function that is not         *)
(* callable returns without throwing and leaves the model registry as it   *)
(* is; the name is not reserved: right after it, createModel for a name    *)
(* without an entry rejects as unregistered and registerModel with a       *)
(* callable function inserts that function.  registerEvent with a valid    *)
(* pair and a function that is not callable returns without throwing and   *)
(* leaves every entry of the event registry as it is.                      *)
C20_NonCallableIsNoOp ==
  [][ /\ ( /\ OpStep("registerModel")
           /\ ValidName(lastOp'.modelName)
           /\ lastOp'.fn.t # "function" ) =>
           /\ ~lastOp'.threw
           /\ modelFactories' = modelFactories
           /\ eventFactories' = eventFactories
      /\ \A key \in {toUpperCase(n.v) : n \in {m \in ModelNameArgs : ValidName(m)}} :
           (AfterNonCallable(key) /\ ~MapHas(modelFactories, key)) =>
             /\ ( /\ OpStep("createModel")
                  /\ IsName(lastOp'.modelName)
                  /\ toUpperCase(lastOp'.modelName.v) = key ) =>
                  /\ call'.pc = "rejected"
                  /\ call'.err = ErrUnregisteredModel
             /\ ( /\ OpStep("registerModel")
                  /\ IsName(lastOp'.modelName)
                  /\ toUpperCase(lastOp'.modelName.v) = key
                  /\ lastOp'.fn.t = "function" ) =>
                  /\ MapHas(modelFactories', key)
                  /\ MapGet(modelFactories', key) = lastOp'.fn
      /\ ( /\ OpStep("registerEvent")
           /\ IsName(lastOp'.modelName)
           /\ IsEventType(lastOp'.eventType)
           /\ lastOp'.fn.t # "function" ) =>
           /\ ~lastOp'.threw
           /\ eventFactories' = eventFactories
           /\ modelFactories' = modelFactories
    ]_vars

(* C20 witness: registerModel("o", undefined) returned without throwing;   *)
(* the model registry has no entry for "O" and the event registry keeps    *)
(* the CREATE entry registered for "O" before.                             *)
C20_Witness ==
  /\ lastOp.op = "registerModel"
  /\ lastOp.modelName = Str(<<"o">>)
  /\ lastOp.fn = Undefined
  /\ ~lastOp.threw
  /\ ~MapHas(modelFactories, <<"O">>)
  /\ MapHas(eventFactories[CREATE], <<"O">>)

====
